---- MODULE Spec2Model ----
(***************************************************************************)
(* Event chatbot: the Express/Mongoose API of event-bot/server.js (the     *)
(* knowledge base, the three-tier lookup of POST /chat, the query log) and *)
(* the React chat widget ChatInterface.jsx that talks to it.               *)
(*                                                                         *)
(* A JavaScript string is a sequence of one-character strings.  A JSON     *)
(* object is a function whose domain is the set of keys that are present,  *)
(* so a missing key (undefined) is a key outside the DOMAIN.               *)
(***************************************************************************)
EXTENDS Integers, Sequences, FiniteSets

VARIABLES
    kb,         \* collection "know_base": records in insertion order
    log,        \* collection "query_logs": entries in insertion order
    calls,      \* requests in flight at the API, in order of arrival: the
                \* locals of each handler and the await it is suspended at
    resp,       \* the last response the API sent: route, request, status, body
    prev,       \* an earlier /chat exchange served from the same knowledge base
    messages,   \* widget state: the transcript
    input,      \* widget state: the text of the input field
    isLoading,  \* widget state: a request is outstanding
    net         \* pending sendMessage calls, each suspended at its await

vars == <<kb, log, calls, resp, prev, messages, input, isLoading, net>>
serverVars == <<kb, log, calls, resp, prev>>
clientVars == <<messages, input, isLoading, net>>

----------------------------------------------------------------------------
(* Bounds of the model. *)

MaxKB == 2        \* records POST /kb may add
MaxLog == 2       \* /chat calls served by the API on its own
MaxCalls == 2     \* requests in flight at the API at a time
MaxTurns == 2     \* submits of the widget
MaxRepeat == 3    \* /chat calls served while repeated calls are compared

----------------------------------------------------------------------------
(* Strings. *)

Str0 == <<>>
SP == " "
DOT == "."
BSL == "\\"

\* String.prototype.toLowerCase on one character of the alphabet
LowerChar(c) ==
    CASE c = "P" -> "p"
      [] c = "K" -> "k"
      [] OTHER -> c

\* t.toLowerCase()
toLowerCase(s) == [i \in DOMAIN s |-> LowerChar(s[i])]

RECURSIVE TrimStart(_)
TrimStart(s) ==
    IF s = Str0 THEN s
    ELSE IF Head(s) = SP THEN TrimStart(Tail(s)) ELSE s

RECURSIVE TrimEnd(_)
TrimEnd(s) ==
    IF s = Str0 THEN s
    ELSE IF s[Len(s)] = SP THEN TrimEnd(SubSeq(s, 1, Len(s) - 1)) ELSE s

\* input.trim()
trim(s) == TrimEnd(TrimStart(s))

\* tags.map(t => t.toLowerCase())
RECURSIVE MapLower(_)
MapLower(ts) ==
    IF ts = <<>> THEN <<>> ELSE <<toLowerCase(Head(ts))>> \o MapLower(Tail(ts))

\* JavaScript truthiness of body[k] for a string-valued key: undefined and ""
\* are falsy
Truthy(body, k) == k \in DOMAIN body /\ body[k] # Str0

\* destructuring with a default: const { k = dflt } = body
Field(body, k, dflt) == IF k \in DOMAIN body THEN body[k] ELSE dflt

----------------------------------------------------------------------------
(* Records of the knowledge base and the store queries of the helpers.     *)
(* A stored record is [_id, question, answer, tags, source]; _id is the    *)
(* position at which the record was inserted.                              *)

\* weights of the text index TextIdx_QA_Tags
WQuestion == 2
WAnswer == 2
WTags == 8

\* the text index splits a string at delimiters (whitespace, punctuation)
\* and folds case; the words of the alphabet are no stop words and have no
\* suffix to stem
IsDelim(c) == c \in {SP, DOT}

RECURSIVE TokensFrom(_, _)
TokensFrom(s, cur) ==
    IF s = Str0 THEN (IF cur = Str0 THEN <<>> ELSE <<cur>>)
    ELSE IF IsDelim(Head(s))
         THEN (IF cur = Str0 THEN <<>> ELSE <<cur>>) \o TokensFrom(Tail(s), Str0)
         ELSE TokensFrom(Tail(s), Append(cur, LowerChar(Head(s))))

Tokens(s) == TokensFrom(s, Str0)

Range(f) == {f[i] : i \in DOMAIN f}

\* A text score is a fraction [num, den] in lowest terms, den > 0.
RECURSIVE GCD(_, _)
GCD(a, b) == IF b = 0 THEN a ELSE GCD(b, a % b)

Rat(n, d) == [num |-> n \div GCD(n, d), den |-> d \div GCD(n, d)]

RatAdd(x, y) == Rat(x.num * y.den + y.num * x.den, x.den * y.den)

RatLeq(x, y) == x.num * y.den <= y.num * x.den

RECURSIVE Pow2(_)
Pow2(n) == IF n = 0 THEN 1 ELSE 2 * Pow2(n - 1)

\* the score the text index keeps for term t of the string s of a field of
\* the given weight: weight * freq * coeff, where count is the number of
\* tokens of s that are t, numTokens the number of tokens of s, freq
\* = 1 + 1/2 + ... + 1/2^(count-1) and coeff = 0.5 * count / numTokens + 0.5
TermScore(s, t, weight) ==
    LET ts == Tokens(s)
        count == Cardinality({i \in DOMAIN ts : ts[i] = t})
        numTokens == Len(ts)
    IN  IF count = 0 THEN Rat(0, 1)
        ELSE Rat(weight * (Pow2(count) - 1) * (count + numTokens),
                 Pow2(count) * numTokens)

\* the scores of the search terms in one string, added up
RECURSIVE StringScore(_, _, _)
StringScore(s, terms, weight) ==
    IF terms = {} THEN Rat(0, 1)
    ELSE LET t == CHOOSE x \in terms : TRUE
         IN  RatAdd(TermScore(s, t, weight), StringScore(s, terms \ {t}, weight))

\* tags is an array: each element is a string of its own
RECURSIVE TagsScore(_, _)
TagsScore(ts, terms) ==
    IF ts = <<>> THEN Rat(0, 1)
    ELSE RatAdd(StringScore(Head(ts), terms, WTags), TagsScore(Tail(ts), terms))

\* { $meta: "textScore" }: the scores of the search terms in the indexed
\* fields of the record, added up (any term matches: $search is an OR);
\* positive exactly when the record matches
TextScore(doc, query) ==
    LET terms == Range(Tokens(query))
    IN  RatAdd(RatAdd(StringScore(doc.question, terms, WQuestion),
                      StringScore(doc.answer, terms, WAnswer)),
               TagsScore(doc.tags, terms))

WithScore(doc, sc) ==
    [k \in DOMAIN doc \cup {"score"} |-> IF k = "score" THEN sc ELSE doc[k]]

\* the positions of the records that { $text: { $search: query } } matches
TextHits(store, query) == {i \in DOMAIN store : TextScore(store[i], query).num > 0}

\* the matching records that .sort({ score: { $meta: "textScore" } }) puts
\* first: those of the highest score
BestScored(store, query) ==
    LET hit == TextHits(store, query)
        sc == [i \in hit |-> TextScore(store[i], query)]
    IN  {i \in hit : \A j \in hit : RatLeq(sc[j], sc[i])}

\* what a find(...).limit(1) may resolve to: the store returns the records
\* docs[i], i \in first, in an order of its choice, since the query names
\* no sort key that tells them apart, and limit(1) keeps the one returned
\* first; [] when nothing matches.  The choice is the store's on every
\* query.
LimitOne(docs, first) ==
    IF first = {} THEN {<<>>} ELSE {<<docs[i]>> : i \in first}

\* the records with the projection { score: { $meta: "textScore" } }
Scored(store, query) ==
    [i \in DOMAIN store |-> WithScore(store[i], TextScore(store[i], query))]

\* textSearch without the sort by score: any matching record
textSearchUnsorted(store, query) ==
    LimitOne(Scored(store, query), TextHits(store, query))

\* KB.find({$text}, {score}).sort({score: textScore}).limit(1).lean():
\* the results the call may resolve to, each a list of at most one record
\* with its score; the sort tells records of different scores apart and
\* no others
textSearch(store, query) ==
    LimitOne(Scored(store, query), BestScored(store, query))

\* characters that query.replace(/[.*+?^${}()|[\]\\]/g, "\\$&") escapes
MetaChars == {DOT, "*", "+", "?", "^", "$", "{", "}", "(", ")", "|", "[", "]", BSL}

RECURSIVE Escape(_)
Escape(s) ==
    IF s = Str0 THEN Str0
    ELSE (IF Head(s) \in MetaChars THEN <<BSL, Head(s)>> ELSE <<Head(s)>>)
         \o Escape(Tail(s))

\* new RegExp(p, "i"): p parsed into atoms; "\c" is the literal c, an
\* unescaped "." is any character, every other character is itself
RECURSIVE Atoms(_)
Atoms(p) ==
    IF p = Str0 THEN <<>>
    ELSE IF Head(p) = BSL /\ Len(p) >= 2
         THEN <<[any |-> FALSE, ch |-> LowerChar(p[2])]>> \o Atoms(Tail(Tail(p)))
         ELSE IF Head(p) = DOT
              THEN <<[any |-> TRUE, ch |-> DOT]>> \o Atoms(Tail(p))
              ELSE <<[any |-> FALSE, ch |-> LowerChar(Head(p))]>> \o Atoms(Tail(p))

\* rx.test(s): the atoms match somewhere in s, case folded
RegExpTest(p, s) ==
    LET at == Atoms(p)
    IN  \E off \in 0..(Len(s) - Len(at)) :
           \A j \in DOMAIN at : at[j].any \/ at[j].ch = LowerChar(s[off + j])

\* the positions of the records that { $or: [{question: rx}, {answer: rx}] }
\* matches, rx being the escaped query
RegexHits(store, query) ==
    {i \in DOMAIN store :
        \/ RegExpTest(Escape(query), store[i].question)
        \/ RegExpTest(Escape(query), store[i].answer)}

\* KB.find({ $or: [{question: rx}, {answer: rx}] }).limit(1).lean(): no
\* sort and no index for the pattern, the records come in the store's
\* natural order, which the store does not specify
regexFallback(store, query) ==
    LimitOne(store, RegexHits(store, query))

\* the positions of the records that carry tag t
Carrying(store, t) == {i \in DOMAIN store : t \in Range(store[i].tags)}

\* the index on tags (tags: { index: true }) keeps the records of one tag
\* in the order of their insertion: the first record of each wanted tag
\* that some record carries.  Which tag of $in is served first is the
\* store's choice.
TagFirsts(store, want) ==
    {CHOOSE i \in Carrying(store, t) : \A j \in Carrying(store, t) : i <= j :
        t \in {u \in want : Carrying(store, u) # {}}}

\* tagFilter returning the newest record of a tag instead of the first
tagFilterNewest(store, tags) ==
    IF tags = <<>> THEN {<<>>}
    ELSE LimitOne(store,
            {CHOOSE i \in Carrying(store, t) : \A j \in Carrying(store, t) : j <= i :
                t \in {u \in Range(MapLower(tags)) : Carrying(store, u) # {}}})

\* KB.find({ tags: { $in: lowercased } }).limit(1).lean(); [] for an empty
\* list
tagFilter(store, tags) ==
    IF tags = <<>> THEN {<<>>}
    ELSE LimitOne(store, TagFirsts(store, Range(MapLower(tags))))

----------------------------------------------------------------------------
(* The routes of the API.                                                  *)
(*                                                                         *)
(* An async handler runs until its next await, hands the store call to the *)
(* driver and returns to the event loop; it resumes when the store has     *)
(* answered.  A request in flight is a record of the handler's locals and  *)
(* of the await it is suspended at (pc); a step of the model is one store  *)
(* call together with the synchronous code that follows it.  The store     *)
(* calls of different requests interleave.                                 *)

NoExchange == [route |-> "none"]
UserSource == <<"user">>
\* "Sorry, I don’t know yet.": the apostrophe is the character U+2019,
\* written as a piece of its own
FallbackAnswer == <<"Sorry, I don", "U+2019", "t know yet.">>
\* let score = null: no score; a text score is always positive
NoScore == Rat(0, 1)

Exchange(route, req, status, body) ==
    [route |-> route, req |-> req, status |-> status, body |-> body]

\* NewDoc with the tags stored as given
NewDocRawTags(store, body) ==
    [_id |-> Len(store) + 1,
     question |-> body.question,
     answer |-> body.answer,
     tags |-> Field(body, "tags", <<>>),
     source |-> Field(body, "source", UserSource)]

\* POST /kb: the document KB.create stores
NewDoc(store, body) ==
    [_id |-> Len(store) + 1,
     question |-> body.question,
     answer |-> body.answer,
     tags |-> MapLower(Field(body, "tags", <<>>)),
     source |-> Field(body, "source", UserSource)]

\* KbAccepts with the answer left unchecked
KbAcceptsQuestionOnly(body) == Truthy(body, "question")

\* POST /kb: if (!question || !answer) return 400
KbAccepts(body) == Truthy(body, "question") /\ Truthy(body, "answer")

\* POST /kb, line 77: the locals of the handler when a body that passes
\* the test of line 78 arrives, suspended at await KB.create; doc is
\* assigned when the handler resumes
KbArrive(body) ==
    [route |-> "kb", req |-> body, client |-> 0, doc |-> <<>>,
     error |-> "", pc |-> "create"]

\* GET /analytics/top-queries: the handler suspended at await Log.aggregate
AnalyticsArrive ==
    [route |-> "analytics", req |-> <<>>, client |-> 0, agg |-> <<>>,
     error |-> "", pc |-> "aggregate"]

\* POST /chat, line 111: if (query)
WantsText(c) == c.query # Str0

\* WantsRegex without the test of top
WantsRegexAlways(c) == c.query # Str0

\* POST /chat, line 120: if (!top && query)
WantsRegex(c) == c.top = <<>> /\ c.query # Str0

\* POST /chat, line 125: if (!top && tags?.length)
WantsTag(c) == c.top = <<>> /\ Len(c.tags) > 0

\* the await the handler reaches next, after the regex tier, after the
\* text tier, and on arrival
PcAfterRegex(c) == IF WantsTag(c) THEN "tag" ELSE "log"
PcAfterText(c) == IF WantsRegex(c) THEN "regex" ELSE PcAfterRegex(c)
PcAtStart(c) == IF WantsText(c) THEN "text" ELSE PcAfterText(c)

\* POST /chat, lines 106-109: the locals of the handler when the request
\* arrives (top = null is the empty sequence), suspended at its first
\* await; client names the caller
ChatArrive(body, client) ==
    LET c == [route |-> "chat", req |-> body, client |-> client,
              query |-> Field(body, "query", Str0),
              tags |-> Field(body, "tags", <<>>),
              matchedBy |-> "none",
              top |-> <<>>,
              score |-> NoScore,
              textResults |-> <<>>, rx |-> <<>>, tg |-> <<>>,
              error |-> "", pc |-> "start"]
    IN  [c EXCEPT !.pc = PcAtStart(c)]

\* lines 112-117: textResults came back from the store
AfterText(c, results) ==
    LET d == IF results # <<>>
             THEN [c EXCEPT !.textResults = results, !.top = <<results[1]>>,
                            !.matchedBy = "text", !.score = results[1].score]
             ELSE c
    IN  [d EXCEPT !.pc = PcAfterText(d)]

\* AfterRegex with matchedBy set before the result is tested
AfterRegexEager(c, results) ==
    LET d == IF results # <<>>
             THEN [c EXCEPT !.rx = results, !.top = <<results[1]>>,
                            !.matchedBy = "regex"]
             ELSE [c EXCEPT !.matchedBy = "regex"]
    IN  [d EXCEPT !.pc = PcAfterRegex(d)]

\* lines 121-122: rx came back from the store
AfterRegex(c, results) ==
    LET d == IF results # <<>>
             THEN [c EXCEPT !.rx = results, !.top = <<results[1]>>,
                            !.matchedBy = "regex"]
             ELSE c
    IN  [d EXCEPT !.pc = PcAfterRegex(d)]

\* lines 126-127: tg came back from the store
AfterTag(c, results) ==
    LET d == IF results # <<>>
             THEN [c EXCEPT !.tg = results, !.top = <<results[1]>>,
                            !.matchedBy = "tag"]
             ELSE c
    IN  [d EXCEPT !.pc = "log"]

\* a store call rejected: the catch block answers 500 with e.message
Failed(c, message) == [c EXCEPT !.error = message, !.pc = "respond"]

\* the document of Log.create: matchedDocId is top?._id, absent without a
\* match; score || null
LogEntry(c) ==
    IF c.top = <<>>
    THEN [query |-> c.query, score |-> NoScore, matchedBy |-> c.matchedBy]
    ELSE [query |-> c.query, matchedDocId |-> c.top[1]._id,
          score |-> c.score, matchedBy |-> c.matchedBy]

\* await Log.create(...): the entries the store appends; none when the
\* write is rejected
Logged(c, fault) == IF fault THEN <<>> ELSE <<LogEntry(c)>>

\* the body of res.json on the success path, lines 134-142
ChatBody(c) ==
    IF c.top = <<>>
    THEN [answer |-> FallbackAnswer, matchedBy |-> c.matchedBy]
    ELSE [answer |-> c.top[1].answer, source |-> c.top[1].source,
          tags |-> c.top[1].tags, matchedBy |-> c.matchedBy, score |-> c.score]

\* "a, b".split(",")
RECURSIVE SplitFrom(_, _)
SplitFrom(s, cur) ==
    IF s = Str0 THEN <<cur>>
    ELSE IF Head(s) = "," THEN <<cur>> \o SplitFrom(Tail(s), Str0)
         ELSE SplitFrom(Tail(s), Append(cur, Head(s)))

RECURSIVE MapTrimLower(_)
MapTrimLower(ts) ==
    IF ts = <<>> THEN <<>>
    ELSE <<toLowerCase(trim(Head(ts)))>> \o MapTrimLower(Tail(ts))

\* GET /kb/search: tags ? String(tags).split(",").map(trim, lower) : []
TagList(params) ==
    IF Truthy(params, "tags") THEN MapTrimLower(SplitFrom(params.tags, Str0)) ELSE <<>>

\* GET /kb/search, lines 93-95: the await the handler reaches next
SearchPcAfterRegex(c) ==
    IF c.results = <<>> /\ Len(c.tagList) > 0 THEN "tag" ELSE "respond"
SearchPcAfterText(c) ==
    IF c.results = <<>> /\ c.q # Str0 THEN "regex" ELSE SearchPcAfterRegex(c)
SearchPcAtStart(c) == IF c.q # Str0 THEN "text" ELSE SearchPcAfterText(c)

\* GET /kb/search, lines 89-91: the locals of the handler on arrival
SearchArrive(params) ==
    LET c == [route |-> "search", req |-> params, client |-> 0,
              q |-> Field(params, "q", Str0),
              tagList |-> TagList(params),
              results |-> <<>>,
              error |-> "", pc |-> "start"]
    IN  [c EXCEPT !.pc = SearchPcAtStart(c)]

\* results = await ...: the store answered the query of tier pc
SearchAfter(c, results) ==
    LET d == [c EXCEPT !.results = results]
    IN  [d EXCEPT !.pc = CASE c.pc = "text" -> SearchPcAfterText(d)
                           [] c.pc = "regex" -> SearchPcAfterRegex(d)
                           [] OTHER -> "respond"]

\* the response of a handler that ran to its end
ResponseOf(c) ==
    IF c.error # ""
    THEN Exchange(c.route, c.req, 500, [error |-> c.error])
    ELSE CASE c.route = "chat" -> Exchange("chat", c.req, 200, ChatBody(c))
           [] c.route = "kb" -> Exchange("kb", c.req, 201, c.doc[1])
           [] c.route = "analytics" -> Exchange("analytics", c.req, 200, c.agg)
           [] OTHER ->
                Exchange("search", c.req, 200,
                         [query |-> c.q, tags |-> c.tagList, results |-> c.results])

Without(q, i) == SubSeq(q, 1, i - 1) \o SubSeq(q, i + 1, Len(q))

\* requests of route r in flight
InFlight(r) == Cardinality({i \in DOMAIN calls : calls[i].route = r})

\* the request arrives: the handler runs up to its first await
Arrive(c) ==
    /\ Len(calls) < MaxCalls
    /\ calls' = Append(calls, c)
    /\ UNCHANGED <<kb, log, resp, prev>>

\* POST /kb, line 78: a body without a question or an answer is answered
\* 400 at once, the handler never suspends
KbRefuse(body) ==
    /\ ~KbAccepts(body)
    /\ resp' = Exchange("kb", body, 400, [error |-> "question & answer required"])
    /\ UNCHANGED <<kb, log, calls, prev>>

\* POST /kb, await KB.create(...): the store inserts the document, or
\* rejects the call (fault)
KbCreate ==
    /\ \E i \in DOMAIN calls, fault \in BOOLEAN :
          /\ calls[i].route = "kb" /\ calls[i].pc = "create"
          /\ kb' = IF fault THEN kb ELSE Append(kb, NewDoc(kb, calls[i].req))
          /\ calls' = [calls EXCEPT ![i] =
                          IF fault THEN Failed(@, "store")
                          ELSE [@ EXCEPT !.doc = <<NewDoc(kb, calls[i].req)>>,
                                         !.pc = "respond"]]
    /\ UNCHANGED <<log, resp, prev, clientVars>>

\* the groups of the log by query, each with its count
Groups(entries) ==
    {[_id |-> q, count |-> Cardinality({n \in DOMAIN entries : entries[n].query = q})] :
        q \in {entries[n].query : n \in DOMAIN entries}}

\* { $sort: { count: -1 } }, { $limit: 10 }: the orders of the groups by
\* falling count; groups of equal count come in any order
TopQueries(entries) ==
    LET g == Groups(entries)
        k == IF Cardinality(g) < 10 THEN Cardinality(g) ELSE 10
    IN  {s \in [1..k -> g] :
           /\ \A a, b \in 1..k : a < b => s[a] # s[b] /\ s[a].count >= s[b].count
           /\ \A x \in g : (\A a \in 1..k : s[a] # x) =>
                             \A a \in 1..k : s[a].count >= x.count}

\* GET /analytics/top-queries, await Log.aggregate([...])
AnalyticsAggregate ==
    /\ \E i \in DOMAIN calls, fault \in BOOLEAN :
          /\ calls[i].route = "analytics" /\ calls[i].pc = "aggregate"
          /\ \E agg \in TopQueries(log) :
                calls' = [calls EXCEPT ![i] =
                             IF fault THEN Failed(@, "aggregate")
                             ELSE [@ EXCEPT !.agg = agg, !.pc = "respond"]]
    /\ UNCHANGED <<kb, log, resp, prev, clientVars>>

\* POST /chat, await textSearch(query); fault: the store rejects the call
ChatTextQuery ==
    /\ \E i \in DOMAIN calls, fault \in BOOLEAN :
          /\ calls[i].route = "chat" /\ calls[i].pc = "text"
          /\ \E results \in textSearch(kb, calls[i].query) :
                calls' = [calls EXCEPT ![i] =
                             IF fault THEN Failed(@, "find")
                             ELSE AfterText(@, results)]
    /\ UNCHANGED <<kb, log, resp, prev, clientVars>>

\* POST /chat, await regexFallback(query)
ChatRegexQuery ==
    /\ \E i \in DOMAIN calls, fault \in BOOLEAN :
          /\ calls[i].route = "chat" /\ calls[i].pc = "regex"
          /\ \E results \in regexFallback(kb, calls[i].query) :
                calls' = [calls EXCEPT ![i] =
                             IF fault THEN Failed(@, "find")
                             ELSE AfterRegex(@, results)]
    /\ UNCHANGED <<kb, log, resp, prev, clientVars>>

\* POST /chat, await tagFilter(tags)
ChatTagQuery ==
    /\ \E i \in DOMAIN calls, fault \in BOOLEAN :
          /\ calls[i].route = "chat" /\ calls[i].pc = "tag"
          /\ \E results \in tagFilter(kb, calls[i].tags) :
                calls' = [calls EXCEPT ![i] =
                             IF fault THEN Failed(@, "find")
                             ELSE AfterTag(@, results)]
    /\ UNCHANGED <<kb, log, resp, prev, clientVars>>

\* POST /chat, await Log.create(...)
ChatLogWrite ==
    /\ \E i \in DOMAIN calls, fault \in BOOLEAN :
          /\ calls[i].route = "chat" /\ calls[i].pc = "log"
          /\ log' = log \o Logged(calls[i], fault)
          /\ calls' = [calls EXCEPT ![i] =
                          IF fault THEN Failed(@, "log")
                          ELSE [@ EXCEPT !.pc = "respond"]]
    /\ UNCHANGED <<kb, resp, prev, clientVars>>

\* GET /kb/search, results = await textSearch(q)
SearchTextQuery ==
    /\ \E i \in DOMAIN calls, fault \in BOOLEAN :
          /\ calls[i].route = "search" /\ calls[i].pc = "text"
          /\ \E results \in textSearch(kb, calls[i].q) :
                calls' = [calls EXCEPT ![i] =
                             IF fault THEN Failed(@, "find")
                             ELSE SearchAfter(@, results)]
    /\ UNCHANGED <<kb, log, resp, prev, clientVars>>

\* GET /kb/search, results = await regexFallback(q)
SearchRegexQuery ==
    /\ \E i \in DOMAIN calls, fault \in BOOLEAN :
          /\ calls[i].route = "search" /\ calls[i].pc = "regex"
          /\ \E results \in regexFallback(kb, calls[i].q) :
                calls' = [calls EXCEPT ![i] =
                             IF fault THEN Failed(@, "find")
                             ELSE SearchAfter(@, results)]
    /\ UNCHANGED <<kb, log, resp, prev, clientVars>>

\* GET /kb/search, results = await tagFilter(tagList)
SearchTagQuery ==
    /\ \E i \in DOMAIN calls, fault \in BOOLEAN :
          /\ calls[i].route = "search" /\ calls[i].pc = "tag"
          /\ \E results \in tagFilter(kb, calls[i].tagList) :
                calls' = [calls EXCEPT ![i] =
                             IF fault THEN Failed(@, "find")
                             ELSE SearchAfter(@, results)]
    /\ UNCHANGED <<kb, log, resp, prev, clientVars>>

\* the fetch of the widget that call c answers gets the response, if the
\* widget still waits for it
Delivered(pending, c, e) ==
    [k \in DOMAIN pending |->
        IF pending[k].stage = "serving" /\ pending[k].turn = c.client
        THEN [stage |-> "answered", turn |-> pending[k].turn,
              body |-> pending[k].body, status |-> e.status, data |-> e.body]
        ELSE pending[k]]

\* res.json(...) / res.status(500).json(...): the handler of call i ends
Respond(i) ==
    /\ calls[i].pc = "respond"
    /\ resp' = ResponseOf(calls[i])
    /\ calls' = Without(calls, i)
    /\ net' = Delivered(net, calls[i], resp')
    /\ UNCHANGED <<kb, log, messages, input, isLoading>>

SendResponse ==
    /\ \E i \in DOMAIN calls : Respond(i)
    /\ UNCHANGED prev
----------------------------------------------------------------------------
(* The chat widget, ChatInterface.jsx. *)

Greeting == <<"Hello! I'm the Event Chatbot. How can I help you?">>
TroubleText == <<"I seem to be having trouble connecting. Please try again.">>
ErrorText == <<"An error occurred. Please check the backend connection.">>

Turn(text, sender) == [text |-> text, sender |-> sender]

\* ControlsDisabled with the controls left enabled while loading
ControlsNeverDisabled == FALSE

\* disabled={isLoading}: the input field and the Send button are disabled
\* while a request is outstanding, so the field cannot be edited and the
\* form raises no submit event
ControlsDisabled == isLoading

UserTurns == Cardinality({i \in DOMAIN messages : messages[i].sender = "user"})

\* sendMessage up to its await: lines 24-40; the pending call is kept with
\* the number of its user turn
SendMessage ==
    LET userQuery == trim(input)
    IN  IF userQuery = Str0
        THEN UNCHANGED clientVars
        ELSE /\ messages' = Append(messages, Turn(userQuery, "user"))
             /\ input' = Str0
             /\ isLoading' = TRUE
             /\ net' = Append(net, [stage |-> "sent", turn |-> UserTurns + 1,
                                    body |-> [query |-> userQuery, tags |-> <<>>]])

\* response.ok: a status in 200..299
ResponseOk(status) == status >= 200 /\ status <= 299

\* data.answer || TroubleText
BotText(data) == IF Truthy(data, "answer") THEN data.answer ELSE TroubleText

\* sendMessage after await fetch resolved with the server's response:
\* lines 42-60
Resume(i) ==
    /\ messages' = Append(messages,
                       IF ResponseOk(net[i].status)
                       THEN Turn(BotText(net[i].data), "bot")
                       ELSE Turn(ErrorText, "bot"))
    /\ isLoading' = FALSE
    /\ net' = Without(net, i)
    /\ UNCHANGED input

\* Reject with the catch block only logging the error
RejectSilent(i) ==
    /\ isLoading' = FALSE
    /\ net' = Without(net, i)
    /\ UNCHANGED <<messages, input>>

\* sendMessage after fetch (or response.json) rejected: lines 55-60
Reject(i) ==
    /\ messages' = Append(messages, Turn(ErrorText, "bot"))
    /\ isLoading' = FALSE
    /\ net' = Without(net, i)
    /\ UNCHANGED input

----------------------------------------------------------------------------
(* Inputs. *)

KbBodies ==
    { [question |-> <<"p", "k">>, answer |-> <<"k">>, tags |-> <<<<"K">>>>,
       source |-> <<"web">>],
      [question |-> <<"k", " ", "p">>, answer |-> <<"K", ".">>,
       tags |-> <<<<"P">>, <<"k">>>>],
      [answer |-> <<"k">>, tags |-> <<<<"P">>>>],
      [question |-> <<"p", "k">>, answer |-> Str0, tags |-> <<<<"P">>>>] }

ChatBodies ==
    { [query |-> <<"p">>, tags |-> <<<<"k">>>>],
      [query |-> <<".">>],
      [query |-> Str0, tags |-> <<<<"K">>>>],
      [x \in {} |-> Str0] }

SearchParams ==
    { [q |-> <<"p">>],
      [tags |-> <<" ", "K", ",", "P">>] }

Typed == { <<" ">>, <<"p">>, <<" ", "K", ".">>, <<"k", "k", " ">> }

----------------------------------------------------------------------------
(* The API on its own: any client may call any route, and the requests in  *)
(* flight interleave at their awaits.                                      *)

ClientInit ==
    /\ messages = <<Turn(Greeting, "bot")>>
    /\ input = Str0
    /\ isLoading = FALSE
    /\ net = <<>>

Init ==
    /\ kb = <<>>
    /\ log = <<>>
    /\ calls = <<>>
    /\ resp = NoExchange
    /\ prev = NoExchange
    /\ ClientInit

\* a POST /kb request arrives
PostKb ==
    /\ Len(kb) + InFlight("kb") < MaxKB
    /\ \E body \in KbBodies :
          IF KbAccepts(body) THEN Arrive(KbArrive(body)) ELSE KbRefuse(body)
    /\ UNCHANGED clientVars

\* GET /: answered at once
GetRoot ==
    /\ resp' = Exchange("root", <<>>, 200, [ok |-> TRUE, service |-> <<"Event Chatbot API">>])
    /\ UNCHANGED <<kb, log, calls, prev, clientVars>>

\* a GET /analytics/top-queries request arrives
GetTopQueries ==
    /\ Arrive(AnalyticsArrive)
    /\ UNCHANGED clientVars

\* a POST /chat request of an API client (client 0) arrives
PostChat ==
    /\ Len(log) + InFlight("chat") < MaxLog
    /\ \E body \in ChatBodies : Arrive(ChatArrive(body, 0))
    /\ UNCHANGED clientVars

\* a GET /kb/search request arrives
GetKbSearch ==
    /\ \E params \in SearchParams : Arrive(SearchArrive(params))
    /\ UNCHANGED clientVars

Next ==
    \/ GetRoot
    \/ PostKb \/ KbCreate
    \/ GetTopQueries \/ AnalyticsAggregate
    \/ PostChat \/ ChatTextQuery \/ ChatRegexQuery \/ ChatTagQuery \/ ChatLogWrite
    \/ GetKbSearch \/ SearchTextQuery \/ SearchRegexQuery \/ SearchTagQuery
    \/ SendResponse

Spec == Init /\ [][Next]_vars

----------------------------------------------------------------------------
(* The widget against the API.  The request of a pending sendMessage call  *)
(* reaches the API, is served await by await and is answered; the fetch    *)
(* may fail at any moment, and the API then still serves the request it    *)
(* has received.  The widget sends no tags, so the tag tier is never       *)
(* reached.                                                                *)

\* the knowledge base after POST /kb of each body in turn
RECURSIVE AddAll(_, _)
AddAll(store, bodies) ==
    IF bodies = <<>> THEN store
    ELSE AddAll(Append(store, NewDoc(store, Head(bodies))), Tail(bodies))

SeedKB ==
    AddAll(<<>>, <<[question |-> <<"p", "k">>, answer |-> <<"k">>],
                   [question |-> <<"k", " ", "p">>, answer |-> <<"K", ".">>,
                    tags |-> <<<<"P">>>>]>>)

ClientSpecInit ==
    /\ kb \in {<<>>, SeedKB}
    /\ log = <<>>
    /\ calls = <<>>
    /\ resp = NoExchange
    /\ prev = NoExchange
    /\ ClientInit

\* onChange: setInput(e.target.value)
Type ==
    /\ ~ControlsDisabled
    /\ \E v \in Typed : input' = v
    /\ UNCHANGED <<messages, isLoading, net>>
    /\ UNCHANGED serverVars

\* the form's submit event
Submit ==
    /\ ~ControlsDisabled
    /\ UserTurns < MaxTurns
    /\ SendMessage
    /\ UNCHANGED serverVars

\* the request of a pending sendMessage call arrives at the API
Deliver ==
    /\ \E k \in DOMAIN net :
          /\ net[k].stage = "sent"
          /\ Arrive(ChatArrive(net[k].body, net[k].turn))
          /\ net' = [net EXCEPT ![k].stage = "serving"]
    /\ UNCHANGED <<messages, input, isLoading>>

\* the response reaches the widget
Receive ==
    /\ \E i \in DOMAIN net : net[i].stage = "answered" /\ Resume(i)
    /\ UNCHANGED serverVars

\* the connection fails: before the request arrived, while the API serves
\* it, or with the response on its way
NetworkError ==
    /\ \E i \in DOMAIN net : Reject(i)
    /\ UNCHANGED serverVars

ClientNext ==
    \/ Type \/ Submit \/ Deliver
    \/ ChatTextQuery \/ ChatRegexQuery \/ ChatLogWrite \/ SendResponse
    \/ Receive \/ NetworkError

ClientSpec == ClientSpecInit /\ [][ClientNext]_vars

----------------------------------------------------------------------------
(* Repeated /chat calls on a fixed knowledge base: the API without POST    *)
(* /kb, started with any store that POST /kb can build, and with one       *)
(* earlier /chat exchange kept for comparison.                             *)

\* the bodies of the records: the accepted ones of KbBodies and one with
\* the question and the tag of the first of them and another answer
RepeatKbBodies ==
    {x \in KbBodies : KbAccepts(x)}
    \cup { [question |-> <<"p", "k">>, answer |-> <<"k", ".">>,
            tags |-> <<<<"K">>>>] }

\* "k" is a word of every body, with the same text score in two of them
\* and a higher one in the third; "p" is a word of one body and a part of
\* a word of the others; tag "k" is carried by every body and tag "p" by
\* one
RepeatBodies ==
    { [query |-> <<"k">>],
      [query |-> <<"p">>],
      [query |-> Str0, tags |-> <<<<"P">>, <<"k">>>>] }

\* the stores POST /kb builds from at most n accepted bodies
RECURSIVE Stores(_)
Stores(n) ==
    IF n = 0 THEN {<<>>}
    ELSE Stores(n - 1) \cup
         {Append(s, NewDoc(s, b)) :
             s \in {t \in Stores(n - 1) : Len(t) = n - 1},
             b \in RepeatKbBodies}

RepeatInit ==
    /\ kb \in Stores(MaxKB)
    /\ log = <<>>
    /\ calls = <<>>
    /\ resp = NoExchange
    /\ prev = NoExchange
    /\ ClientInit

PostChatAgain ==
    /\ Len(log) + InFlight("chat") < MaxRepeat
    /\ \E body \in RepeatBodies : Arrive(ChatArrive(body, 0))
    /\ UNCHANGED clientVars

\* a response is sent; the first exchange may be kept
SendResponseAgain ==
    /\ \E i \in DOMAIN calls : Respond(i)
    /\ prev' \in IF prev = NoExchange THEN {prev, resp'} ELSE {prev}

RepeatNext ==
    \/ PostChatAgain \/ ChatTextQuery \/ ChatRegexQuery \/ ChatTagQuery \/ ChatLogWrite
    \/ SendResponseAgain

RepeatSpec == RepeatInit /\ [][RepeatNext]_vars

----------------------------------------------------------------------------
(* Properties. *)

ReqQuery(e) == Field(e.req, "query", Str0)
ReqTags(e) == Field(e.req, "tags", <<>>)

\* the exchange is a /chat call that was answered (status 200)
Answered(e) == e.route = "chat" /\ e.status = 200

\* the answered /chat exchange e carries the stored record doc
Carries(e, doc) ==
    /\ e.body.answer = doc.answer
    /\ e.body.source = doc.source
    /\ e.body.tags = doc.tags

\* some record of the store carries one of the tags, case folded
TagStored(store, tags) ==
    \E i \in DOMAIN store, j \in DOMAIN tags :
       toLowerCase(tags[j]) \in Range(store[i].tags)

\* this step is the store call that request i awaited at pc
Ran(i, pc) ==
    /\ Len(calls') = Len(calls)
    /\ calls[i].pc = pc
    /\ calls'[i].pc # pc

\* this step is the one in which the handler of request i comes to its end,
\* with the response ready to be sent
Ended(i) ==
    /\ Len(calls') = Len(calls)
    /\ calls[i].pc # "respond"
    /\ calls'[i].pc = "respond"

\* this step sends the response of request i
Responded(i) ==
    /\ calls[i].pc = "respond"
    /\ calls' = Without(calls, i)

\* the response of an answered /chat request is made of the handler's
\* matchedBy and top
SendsTop(i) ==
    (Responded(i) /\ calls[i].route = "chat" /\ calls[i].error = "") =>
       /\ Answered(resp')
       /\ resp'.req = calls[i].req
       /\ resp'.body.matchedBy = calls[i].matchedBy
       /\ IF calls[i].top = <<>>
          THEN resp'.body.answer = FallbackAnswer
          ELSE Carries(resp', calls[i].top[1])

\* C1 (as claimed): logging failure never masks a resolution: no /chat
\* call is answered with an error response that the failed log write
\* caused; the caller gets the resolved answer or the fallback answer.
C1_LogFailureNeverMasks ==
    (resp.route = "chat" /\ resp.status # 200) => resp.body.error # "log"

\* C2 (as claimed): every /chat call, whatever its outcome, has appended
\* exactly one entry to the query log when its handler comes to its end
\* and the response is sent: the step in which the handler of a /chat call
\* ends is the one that appends the call's entry.
C2_EveryCallLogsOnce ==
    [][\A i \in DOMAIN calls :
          (calls[i].route = "chat" /\ Ended(i)) => Len(log') = Len(log) + 1]_vars

\* C3: tier precedence in /chat.  Each tier's result is what its store
\* query returned when it ran.  A call whose text query returned a record
\* is answered with that record, matchedBy = "text" and its score, and
\* runs no regex and no tag query, whatever they would match; the regex
\* query runs only after an empty text result and its record is returned
\* with matchedBy = "regex"; the tag query runs only after empty text and
\* regex results and its record is returned with matchedBy = "tag".
C3_TierPrecedence ==
    /\ [](\A i \in DOMAIN calls :
             calls[i].route = "chat" =>
                LET c == calls[i]
                IN  /\ c.textResults # <<>> =>
                          /\ c.matchedBy = "text"
                          /\ c.top = c.textResults
                          /\ c.score = c.textResults[1].score
                          /\ c.rx = <<>> /\ c.tg = <<>>
                          /\ c.pc \in {"log", "respond"}
                    /\ c.rx # <<>> =>
                          /\ c.matchedBy = "regex"
                          /\ c.top = c.rx
                          /\ c.tg = <<>>
                          /\ c.pc \in {"log", "respond"}
                    /\ c.tg # <<>> => c.matchedBy = "tag" /\ c.top = c.tg
                    /\ c.matchedBy = "text" => c.textResults # <<>>
                    /\ c.matchedBy = "regex" => c.rx # <<>>
                    /\ c.matchedBy = "tag" => c.tg # <<>>
                    /\ c.matchedBy = "none" => c.top = <<>>
                    /\ c.pc = "regex" => c.textResults = <<>>
                    /\ c.pc = "tag" => c.textResults = <<>> /\ c.rx = <<>>)
    /\ [][\A i \in DOMAIN calls :
             calls[i].route = "chat" =>
                /\ (Ran(i, "text") /\ calls'[i].error = "") =>
                      calls'[i].textResults \in textSearch(kb, calls[i].query)
                /\ (Ran(i, "regex") /\ calls'[i].error = "") =>
                      calls'[i].rx \in regexFallback(kb, calls[i].query)
                /\ (Ran(i, "tag") /\ calls'[i].error = "") =>
                      calls'[i].tg \in tagFilter(kb, calls[i].tags)
                /\ SendsTop(i)
                /\ (Responded(i) /\ calls[i].textResults # <<>> /\ calls[i].error = "") =>
                      resp'.body.score = calls[i].textResults[1].score]_vars

\* the text tier answered although the regex tier and the tags would have
\* picked another record
C3_Witness ==
    /\ Answered(resp)
    /\ resp.body.matchedBy = "text"
    /\ ReqTags(resp) # <<>>
    /\ \E rx \in regexFallback(kb, ReqQuery(resp)) :
          rx # <<>> /\ rx[1].answer # resp.body.answer
    /\ \E tg \in tagFilter(kb, ReqTags(resp)) :
          tg # <<>> /\ tg[1].answer # resp.body.answer

\* a /chat request with an empty query and one tag
TagOnly(c) == c.route = "chat" /\ c.query = Str0 /\ Len(c.tags) = 1

C5_SingleFlight ==
    /\ Len(net) <= 1
    /\ isLoading <=> (Len(net) = 1)
    /\ \A i \in 1..(Len(messages) - 1) :
          messages[i].sender = "user" => messages[i + 1].sender = "bot"
    /\ isLoading <=> (messages[Len(messages)].sender = "user")

\* the second request of a session is outstanding and being served, while
\* the API still serves the first one, whose fetch failed
C5_Witness ==
    /\ isLoading
    /\ UserTurns = 2
    /\ Len(net) = 1
    /\ net[1].stage = "serving"
    /\ \E i \in DOMAIN calls : calls[i].client = 1

\* the tier that decides a /chat request on a store: the first, in the
\* order text, regex, tag, whose query matches a record
DecidingTier(store, query, tags) ==
    IF query # Str0 /\ TextHits(store, query) # {} THEN "text"
    ELSE IF query # Str0 /\ RegexHits(store, query) # {} THEN "regex"
    ELSE IF tags # <<>> /\ TagFirsts(store, Range(MapLower(tags))) # {} THEN "tag"
    ELSE "none"

\* the positions of the candidates of the deciding tier, the records its
\* query may return first: the best-scored records of the text tier, the
\* matching records of the regex tier, the first record of each tag of the
\* tag tier
Candidates(store, query, tags) ==
    LET tier == DecidingTier(store, query, tags)
    IN  CASE tier = "text" -> BestScored(store, query)
          [] tier = "regex" -> RegexHits(store, query)
          [] tier = "tag" -> TagFirsts(store, Range(MapLower(tags)))
          [] OTHER -> {}

\* the answers a /chat request may get on a store
CandidateAnswers(store, query, tags) ==
    LET first == Candidates(store, query, tags)
    IN  IF first = {} THEN {FallbackAnswer} ELSE {store[i].answer : i \in first}

\* the two exchanges kept are answered /chat calls of the same query and
\* tags
SameRequest ==
    /\ Answered(prev) /\ Answered(resp)
    /\ ReqQuery(prev) = ReqQuery(resp)
    /\ ReqTags(prev) = ReqTags(resp)

C7_LogEntryInvariant ==
    /\ [](\A n \in DOMAIN log :
             /\ (log[n].matchedBy = "none") <=> ("matchedDocId" \notin DOMAIN log[n])
             /\ log[n].matchedBy # "none" => log[n].matchedDocId \in DOMAIN kb)
    /\ [][\A i \in DOMAIN calls :
             calls[i].route = "chat" =>
                /\ (Ran(i, "log") /\ calls'[i].error = "" /\ calls[i].matchedBy # "none") =>
                      /\ log'[Len(log')].matchedBy = calls[i].matchedBy
                      /\ calls[i].top # <<>>
                      /\ log'[Len(log')].matchedDocId = calls[i].top[1]._id
                /\ (Responded(i) /\ calls[i].error = "" /\ calls[i].matchedBy # "none") =>
                      \E n \in DOMAIN log :
                         /\ log[n].query = ReqQuery(resp')
                         /\ log[n].matchedBy = resp'.body.matchedBy
                         /\ log[n].matchedDocId = calls[i].top[1]._id
                         /\ Carries(resp', kb[log[n].matchedDocId])]_vars

\* the log holds an entry without a match and an entry of a regex match
C7_Witness ==
    /\ \E n \in DOMAIN log : log[n].matchedBy = "none"
    /\ Answered(resp)
    /\ resp.body.matchedBy = "regex"
    /\ log[Len(log)].matchedBy = "regex"
    /\ log[Len(log)].matchedDocId = 2

\* POST /kb was called with an empty or missing question or answer
BadKbCall(e) ==
    e.route = "kb" /\ (~Truthy(e.req, "question") \/ ~Truthy(e.req, "answer"))

\* C8: POST /kb with an empty or missing question or answer is answered
\* 400 at once, never reaches the store and leaves the knowledge base
\* unchanged: the knowledge base grows only by the insert of a POST /kb
\* call that has both; every stored record has a non-empty question and
\* a non-empty answer.
C8_AddValidation ==
    /\ [](/\ BadKbCall(resp) => resp.status = 400
          /\ \A i \in DOMAIN calls :
                calls[i].route = "kb" =>
                   Truthy(calls[i].req, "question") /\ Truthy(calls[i].req, "answer")
          /\ \A i \in DOMAIN kb : kb[i].question # Str0 /\ kb[i].answer # Str0)
    /\ [][/\ (BadKbCall(resp') /\ ~BadKbCall(resp)) =>
               kb' = kb /\ Len(calls') = Len(calls)
          /\ kb' # kb =>
                \E i \in DOMAIN calls :
                   /\ calls[i].route = "kb" /\ Ran(i, "create")
                   /\ Len(kb') = Len(kb) + 1
                   /\ SubSeq(kb', 1, Len(kb)) = kb
                   /\ kb'[Len(kb')].question = calls[i].req.question
                   /\ kb'[Len(kb')].answer = calls[i].req.answer]_vars

\* a call without a question was refused after a record had been stored,
\* while another POST /kb call is suspended at its insert
C8_Witness ==
    /\ resp.route = "kb"
    /\ "question" \notin DOMAIN resp.req
    /\ resp.status = 400
    /\ Len(kb) >= 1
    /\ \E i \in DOMAIN calls : calls[i].route = "kb" /\ calls[i].pc = "create"

\* C9: every stored tag is lowercase, POST /kb stores and returns each
\* given tag lowercased, and a tag lookup folds the case of its input:
\* the tag tier of /chat, or of /kb/search, run with a tag that some
\* record carries in any casing, finds a record carrying it, and the
\* response returns it.
C9_TagsCaseInsensitive ==
    /\ [](\A i \in DOMAIN kb : \A j \in DOMAIN kb[i].tags :
             kb[i].tags[j] = toLowerCase(kb[i].tags[j]))
    /\ [][/\ kb' # kb =>
               \E i \in DOMAIN calls :
                  /\ calls[i].route = "kb" /\ Ran(i, "create")
                  /\ Len(kb') = Len(kb) + 1
                  /\ \A j \in DOMAIN Field(calls[i].req, "tags", <<>>) :
                        toLowerCase(calls[i].req.tags[j]) \in Range(kb'[Len(kb')].tags)
          /\ \A i \in DOMAIN calls :
                /\ (/\ calls[i].route = "chat" /\ Ran(i, "tag")
                    /\ calls'[i].error = "" /\ TagStored(kb, calls[i].tags)) =>
                      /\ calls'[i].matchedBy = "tag"
                      /\ \E j \in DOMAIN calls[i].tags :
                            toLowerCase(calls[i].tags[j]) \in Range(calls'[i].top[1].tags)
                /\ (/\ calls[i].route = "search" /\ Ran(i, "tag")
                    /\ calls'[i].error = ""
                    /\ TagStored(kb, MapTrimLower(SplitFrom(calls[i].req.tags, Str0)))) =>
                      /\ calls'[i].results # <<>>
                      /\ \E j \in DOMAIN calls[i].tagList :
                            calls[i].tagList[j] \in Range(calls'[i].results[1].tags)
                /\ calls[i].route = "chat" => SendsTop(i)
                /\ (Responded(i) /\ calls[i].route = "kb" /\ calls[i].error = "") =>
                      /\ resp'.status = 201
                      /\ resp'.body.tags = MapLower(Field(calls[i].req, "tags", <<>>))
                /\ (Responded(i) /\ calls[i].route = "search" /\ calls[i].error = "") =>
                      /\ resp'.status = 200
                      /\ resp'.body.results = calls[i].results
                      /\ resp'.body.tags = calls[i].tagList]_vars

\* the record added with tag "K" was found by a /chat call for tag "K",
\* after a record with tag "P" had been stored
C9_Witness ==
    /\ Answered(resp)
    /\ ReqQuery(resp) = Str0
    /\ ReqTags(resp) = <<<<"K">>>>
    /\ resp.body.matchedBy = "tag"
    /\ resp.body.source = <<"web">>
    /\ resp.body.tags = <<<<"k">>>>
    /\ Len(kb) = 2
    /\ <<"p">> \in Range(kb[2].tags)

\* sendMessage accepted a submit in this step
Accepted == Len(net') > Len(net)

\* a pending sendMessage call ran to its end in this step
Completed == Len(net') < Len(net)

\* C10: an accepted submit has non-blank input, appends exactly one user
\* turn (the trimmed input) and sets isLoading; a blank submit changes
\* nothing; when the request completes, by a response or by a transport
\* failure, exactly one bot turn (the answer or an error text) is appended
\* right after that user turn and isLoading is reset; turns already in the
\* transcript never change.
C10_TurnCompletion ==
    [][/\ Len(messages') >= Len(messages)
       /\ SubSeq(messages', 1, Len(messages)) = messages
       /\ Accepted =>
            /\ trim(input) # Str0
            /\ ~isLoading /\ isLoading'
            /\ messages' = Append(messages, Turn(trim(input), "user"))
       /\ Completed =>
            /\ isLoading /\ ~isLoading'
            /\ messages[Len(messages)].sender = "user"
            /\ Len(messages') = Len(messages) + 1
            /\ messages'[Len(messages')].sender = "bot"
            /\ \/ messages'[Len(messages')].text = ErrorText
               \/ /\ net[1].stage = "answered" /\ net[1].status = 200
                  /\ messages'[Len(messages')].text = net[1].data.answer
       /\ (~Accepted /\ ~Completed) => messages' = messages /\ isLoading' = isLoading
       /\ (trim(input) = Str0 /\ ~isLoading) => messages' = messages /\ ~isLoading']_vars

\* the first turn ended in the error text while the API went on serving
\* its request, the second in a stored answer
C10_Witness ==
    /\ Len(messages) = 5
    /\ ~isLoading
    /\ messages[2].sender = "user" /\ messages[3] = Turn(ErrorText, "bot")
    /\ messages[4].sender = "user" /\ messages[5] = Turn(<<"K", ".">>, "bot")
    /\ \E i \in DOMAIN calls : calls[i].client = 1

====
